---- MODULE Spec2Model ----
(***************************************************************************)
(* A model of run.py of basket-streak-bot: the observation extractor       *)
(* (condition_q1_lt_q2), the game window (get_team_games), the             *)
(* streak/frequency analyser (streak_and_freq), the API client (api_get),  *)
(* the messaging client (telegram_send) and the run of main.               *)
(*                                                                         *)
(* Conventions.  A Python dict is a function whose DOMAIN is the set of    *)
(* keys that are present.  None (a JSON null, or the result of dict.get on *)
(* a missing key) is the integer -1; quarter scores are integers >= 0.     *)
(* A game's "date" is 0 for a string datetime.fromisoformat rejects and    *)
(* t >= 1 for an ISO-8601 string with a UTC offset denoting instant t.     *)
(***************************************************************************)
EXTENDS Integers, Sequences, FiniteSets, TLC

VARIABLES
    env,          \* the three credentials read from the environment (lines 10-12)
    pc,           \* position of the run
    season,       \* main: season
    li,           \* main: index in LEAGUES of the league being processed
    teams,        \* main: teams of the current league still to be iterated
    candidates,   \* main: candidates
    top,          \* main: top
    in_flight,    \* API requests issued by requests.get and not yet answered
    resp,         \* api_get: status and body of the last answer, without its records
    listed,       \* how many teams the teams answers have listed, with id and name and without
    api_log,      \* every API request issued so far, in order
    tg_log,       \* every sendMessage POST issued so far, in order
    delivered,    \* the texts of the POSTs the messaging endpoint answered 200
    err,          \* the exception that ended the run ("" while none)
    game,         \* condition_q1_lt_q2: its argument
    cond,         \* condition_q1_lt_q2: its result
    fetched,      \* get_team_games: the games api_get returned
    last_n,       \* get_team_games: its window
    games,        \* streak_and_freq: its argument (get_team_games' result)
    stats         \* streak_and_freq: its locals after the loop, and freq

vars == <<env, pc, season, li, teams, candidates, top, in_flight, resp, listed,
          api_log, tg_log, delivered, err, game, cond, fetched, last_n, games, stats>>

runVars  == <<env, season, li, teams, candidates, top, in_flight, resp, listed,
              api_log, tg_log, delivered, err>>
pureVars == <<game, cond, fetched, last_n, games, stats>>

(***************************************************************************)
(* Bounds of the model.                                                    *)
(***************************************************************************)
MaxScore   == 2   \* quarter scores range over 0..MaxScore
MaxT       == 2   \* game instants range over 1..MaxT
MaxFetched == 3   \* SpecAnalyze: at most this many games are fetched
MaxLastN   == 3   \* SpecAnalyze: last_n ranges over 0..MaxLastN
MaxTeams   == 1   \* Spec: a teams response lists at most this many teams
MaxRep     == 3   \* SpecRank: each kind of candidate occurs 0..MaxRep times
DailyCeiling == 4 \* the configured daily ceiling of requests the spec speaks of

(***************************************************************************)
(* Python values.                                                          *)
(***************************************************************************)
None == 0 - 1

EmptyDict == <<>>

\* dict.get(k, default)
Get(d, k, default) == IF k \in DOMAIN d THEN d[k] ELSE default

Min(a, b) == IF a < b THEN a ELSE b
Max(a, b) == IF a > b THEN a ELSE b

\* s[:n]
Slice(s, n) ==
    IF n >= 0 THEN SubSeq(s, 1, Min(n, Len(s)))
              ELSE SubSeq(s, 1, Max(0, Len(s) + n))

(***************************************************************************)
(* condition_q1_lt_q2 (lines 28-37).  The observation of a game: "hit" is  *)
(* the code's True, "miss" its False and "unknown" its None.               *)
(***************************************************************************)
\* A variant that tests the scores for truthiness, as `if not q1 or ...`
\* would: a score of 0 is taken for a missing one.
condition_q1_lt_q2_truthy(g) ==
    LET scores == Get(g, "scores", EmptyDict)
        q1  == Get(Get(scores, "home", EmptyDict), "quarter_1", None)
        q1a == Get(Get(scores, "away", EmptyDict), "quarter_1", None)
        q2  == Get(Get(scores, "home", EmptyDict), "quarter_2", None)
        q2a == Get(Get(scores, "away", EmptyDict), "quarter_2", None)
    IN  IF q1 <= 0 \/ q1a <= 0 \/ q2 <= 0 \/ q2a <= 0
        THEN "unknown"
        ELSE IF q1 + q1a < q2 + q2a THEN "hit" ELSE "miss"

condition_q1_lt_q2(g) ==
    LET scores == Get(g, "scores", EmptyDict)
        q1  == Get(Get(scores, "home", EmptyDict), "quarter_1", None)
        q1a == Get(Get(scores, "away", EmptyDict), "quarter_1", None)
        q2  == Get(Get(scores, "home", EmptyDict), "quarter_2", None)
        q2a == Get(Get(scores, "away", EmptyDict), "quarter_2", None)
    IN  IF None \in {q1, q1a, q2, q2a}
        THEN "unknown"
        ELSE IF q1 + q1a < q2 + q2a THEN "hit" ELSE "miss"

(***************************************************************************)
(* get_team_games (lines 115-140), after api_get has returned `fetched`.   *)
(* A datetime is [aware, t]: datetime.min is naive, the parsed dates are   *)
(* aware, and Python raises TypeError when `<` compares one of each.       *)
(***************************************************************************)
datetime_min == [aware |-> FALSE, t |-> 0]

parse_date(g) ==
    LET ds == Get(g, "date", None)
    IN  IF ds = None THEN datetime_min           \* if not ds
        ELSE IF ds = 0 THEN datetime_min         \* except Exception
        ELSE [aware |-> TRUE, t |-> ds]

\* sorted() compares two keys of different awareness as soon as the list
\* holds both, and that comparison raises TypeError.
sorted_raises(gs) ==
    \E i, j \in 1..Len(gs) : parse_date(gs[i]).aware /= parse_date(gs[j]).aware

\* Insertion of g into r, which is in descending key order, behind every
\* element whose key is not smaller: sorted(..., reverse=True) is stable.
RECURSIVE insert_by_date(_, _)
insert_by_date(r, g) ==
    IF r = <<>> THEN <<g>>
    ELSE IF parse_date(Head(r)).t < parse_date(g).t
         THEN <<g>> \o r
         ELSE <<Head(r)>> \o insert_by_date(Tail(r), g)

RECURSIVE sorted_by_date_desc(_)
sorted_by_date_desc(gs) ==
    IF gs = <<>> THEN <<>>
    ELSE insert_by_date(sorted_by_date_desc(SubSeq(gs, 1, Len(gs) - 1)),
                        gs[Len(gs)])

\* A variant that returns every fetched game, sorted but not cut to the window.
get_team_games_untruncated(gs, n) == sorted_by_date_desc(gs)

get_team_games(gs, n) == Slice(sorted_by_date_desc(gs), n)

(***************************************************************************)
(* streak_and_freq (lines 152-183).  loop_body is one iteration of the for *)
(* loop on the locals; streak_loop is the locals after the whole loop.     *)
(* freq is the float ok_count / usable * 100.0, kept as the exact fraction *)
(* num/den: for counts this small two such floats are ordered as the       *)
(* fractions are, and are equal exactly when the fractions are.            *)
(***************************************************************************)
loop_init == [usable |-> 0, ok_count |-> 0, streak |-> 0, streak_active |-> TRUE]

\* A variant of the loop body that leaves the loop at the first miss.
loop_body_miss_breaks(st, g) ==
    LET c == condition_q1_lt_q2(g)
    IN  IF c = "unknown" \/ ~st.streak_active THEN st
        ELSE [usable        |-> st.usable + 1,
              ok_count      |-> IF c = "hit" THEN st.ok_count + 1 ELSE st.ok_count,
              streak        |-> IF c = "hit" THEN st.streak + 1 ELSE st.streak,
              streak_active |-> c = "hit"]

\* A variant of the loop body that counts every hit game into the streak,
\* also one behind a miss.
loop_body_streak_resumes(st, g) ==
    LET c == condition_q1_lt_q2(g)
    IN  IF c = "unknown" THEN st
        ELSE [usable        |-> st.usable + 1,
              ok_count      |-> IF c = "hit" THEN st.ok_count + 1 ELSE st.ok_count,
              streak        |-> IF c = "hit" THEN st.streak + 1 ELSE st.streak,
              streak_active |-> st.streak_active /\ c = "hit"]

loop_body(st, g) ==
    LET c == condition_q1_lt_q2(g)
    IN  IF c = "unknown" THEN st                                  \* continue
        ELSE [usable        |-> st.usable + 1,
              ok_count      |-> IF c = "hit" THEN st.ok_count + 1 ELSE st.ok_count,
              streak        |-> IF st.streak_active /\ c = "hit"
                                THEN st.streak + 1 ELSE st.streak,
              streak_active |-> st.streak_active /\ c = "hit"]

RECURSIVE streak_loop(_)
streak_loop(gs) ==
    IF gs = <<>> THEN loop_init
    ELSE loop_body(streak_loop(SubSeq(gs, 1, Len(gs) - 1)), gs[Len(gs)])

Freq(ok_count, usable) ==
    IF usable > 0 THEN [num |-> ok_count * 100, den |-> usable]
                  ELSE [num |-> 0, den |-> 1]

\* The locals after the loop together with freq; the function returns
\* (streak, freq, usable) of them.
streak_and_freq(gs) ==
    LET st == streak_loop(gs)
    IN  [streak |-> st.streak, freq |-> Freq(st.ok_count, st.usable),
         usable |-> st.usable, ok_count |-> st.ok_count]

NoStats == [streak |-> 0, freq |-> Freq(0, 0), usable |-> 0, ok_count |-> 0]

(***************************************************************************)
(* The game records the model draws its inputs from.                       *)
(***************************************************************************)
QuarterKeys == {"quarter_1", "quarter_2"}
QuarterVals == {None} \cup (0..MaxScore)

\* The "home" and "away" objects: any subset of the quarter keys present.
SideDicts == UNION {[K -> QuarterVals] : K \in SUBSET QuarterKeys}

\* The "scores" object: any subset of the two sides present.
ScoresDicts == UNION {[K -> SideDicts] : K \in SUBSET {"home", "away"}}

\* Game records as condition_q1_lt_q2 reads them.
AllGames == {EmptyDict} \cup {[scores |-> s] : s \in ScoresDicts}

Side(q1, q2) == [quarter_1 |-> q1, quarter_2 |-> q2]

\* One game per observation, for the sequences of games.
HitScores     == [home |-> Side(0, 1), away |-> Side(1, 1)]
MissScores    == [home |-> Side(1, 0), away |-> Side(0, 1)]
UnknownScores == [home |-> Side(1, None), away |-> Side(0, 1)]
ObsScores     == {HitScores, MissScores, UnknownScores}

DateVals == {None} \cup (0..MaxT)

\* A game with a date (None: no date) and scores.
DatedGame(d, s) ==
    IF d = None THEN [scores |-> s] ELSE [date |-> d, scores |-> s]

GamePool == {DatedGame(d, s) : d \in DateVals, s \in ObsScores}

SeqsUpTo(S, n) == UNION {[1..k -> S] : k \in 0..n}

Obs(gs) == [i \in 1..Len(gs) |-> condition_q1_lt_q2(gs[i])]

\* The number of i with s[i] in V.
Count(s, V) == Cardinality({i \in 1..Len(s) : s[i] \in V})

(***************************************************************************)
(* The run variables at rest, for the specifications of the pure           *)
(* functions.                                                              *)
(***************************************************************************)
RunIdle ==
    /\ env = [API_SPORTS_KEY |-> "", TELEGRAM_BOT_TOKEN |-> "", TELEGRAM_CHAT_ID |-> ""]
    /\ season = None
    /\ li = 0
    /\ teams = <<>>
    /\ candidates = <<>>
    /\ top = <<>>
    /\ in_flight = 0
    /\ resp = [net |-> FALSE, status |-> 0, json |-> FALSE, errors |-> FALSE]
    /\ listed = [valid |-> 0, other |-> 0]
    /\ api_log = <<>>
    /\ tg_log = <<>>
    /\ delivered = <<>>
    /\ err = ""

PureIdle ==
    /\ game = EmptyDict
    /\ cond = "unknown"
    /\ fetched = <<>>
    /\ last_n = 0
    /\ games = <<>>
    /\ stats = NoStats

(***************************************************************************)
(* SpecCond: condition_q1_lt_q2 applied to every game record of AllGames.  *)
(***************************************************************************)
InitCond ==
    /\ RunIdle
    /\ pc = "cond_call"
    /\ game \in AllGames
    /\ cond = "unknown"
    /\ fetched = <<>> /\ last_n = 0 /\ games = <<>> /\ stats = NoStats

Classify ==
    /\ pc = "cond_call"
    /\ cond' = condition_q1_lt_q2(game)
    /\ pc' = "cond_return"
    /\ UNCHANGED <<runVars, game, fetched, last_n, games, stats>>

NextCond == Classify

SpecCond == InitCond /\ [][NextCond]_vars

(***************************************************************************)
(* SpecAnalyze: get_team_games on every sequence of at most MaxFetched     *)
(* games of GamePool with every window 0..MaxLastN, then streak_and_freq   *)
(* on its result, as lines 233-235 chain them.                             *)
(***************************************************************************)
InitAnalyze ==
    /\ RunIdle
    /\ pc = "games_call"
    /\ fetched \in SeqsUpTo(GamePool, MaxFetched)
    /\ last_n \in 0..MaxLastN
    /\ games = <<>> /\ stats = NoStats
    /\ game = EmptyDict /\ cond = "unknown"

\* get_team_games returns the window.
GetTeamGames ==
    /\ pc = "games_call"
    /\ ~sorted_raises(fetched)
    /\ games' = get_team_games(fetched, last_n)
    /\ pc' = "streak_call"
    /\ UNCHANGED <<runVars, game, cond, fetched, last_n, stats>>

\* sorted() raises TypeError inside get_team_games.
GetTeamGamesRaises ==
    /\ pc = "games_call"
    /\ sorted_raises(fetched)
    /\ pc' = "games_raised"
    /\ UNCHANGED <<runVars, pureVars>>

StreakAndFreq ==
    /\ pc = "streak_call"
    /\ stats' = streak_and_freq(games)
    /\ pc' = "streak_return"
    /\ UNCHANGED <<runVars, game, cond, fetched, last_n, games>>

NextAnalyze == GetTeamGames \/ GetTeamGamesRaises \/ StreakAndFreq

SpecAnalyze == InitAnalyze /\ [][NextAnalyze]_vars

(***************************************************************************)
(* Configuration (lines 14-25) and the literals of main and api_get.       *)
(***************************************************************************)
LEAGUES ==
    << [country |-> "Spain",  league_id |-> 117, league_name |-> "ACB"],
       [country |-> "Turkey", league_id |-> 116, league_name |-> "BSL"],
       [country |-> "Italy",  league_id |-> 111, league_name |-> "LBA"] >>

TOP_N == 10
LAST_GAMES_MAX == 15
MIN_USABLE == 5        \* `if usable < 5` of main
max_retries == 3       \* api_get's default

(***************************************************************************)
(* api_get (lines 44-76).  A response of the API server is a record: net   *)
(* FALSE when requests.get itself raises (no connection, timeout), else    *)
(* the status code, whether the body is JSON, whether its "errors" is      *)
(* non-empty, and its "response".                                          *)
(***************************************************************************)
Response(net, status, json, errors, payload) ==
    [net |-> net, status |-> status, json |-> json, errors |-> errors,
     response |-> payload]

\* The answers the server may give to a request whose successful payloads
\* are P.
Responses(P) ==
    {Response(FALSE, 0, FALSE, FALSE, <<>>)}
    \cup {Response(TRUE, st, FALSE, FALSE, <<>>) : st \in {200, 500}}
    \cup {Response(TRUE, 500, TRUE, e, <<>>) : e \in BOOLEAN}
    \cup {Response(TRUE, 200, TRUE, TRUE, <<>>)}
    \cup {Response(TRUE, 200, TRUE, FALSE, p) : p \in P}

\* r without its records; NoResponse while requests.get has returned nothing.
Envelope(r) == [net |-> r.net, status |-> r.status, json |-> r.json, errors |-> r.errors]

NoResponse == [net |-> FALSE, status |-> 0, json |-> FALSE, errors |-> FALSE]

\* One iteration of the for loop of api_get on the response r: the
\* exception it raises, or "" when it returns r.response.  Every path of
\* the body returns or raises, so the sleep of lines 73-74, the next
\* iteration and the raise of line 76 are never reached.
\* A variant that trusts a 200 answer without reading the body's "errors".
api_get_raises_ignores_errors(r) ==
    IF ~r.net THEN "requests.RequestException"
    ELSE IF ~r.json THEN "RuntimeError: API response is not JSON"
    ELSE IF r.status /= 200 THEN "RuntimeError: HTTP"
    ELSE ""

api_get_raises(r) ==
    IF ~r.net THEN "requests.RequestException"
    ELSE IF ~r.json THEN "RuntimeError: API response is not JSON"
    ELSE IF r.status /= 200 THEN "RuntimeError: HTTP"
    ELSE IF r.errors THEN "RuntimeError: API error"
    ELSE ""

ApiErrors == {"requests.RequestException", "RuntimeError: API response is not JSON",
              "RuntimeError: HTTP", "RuntimeError: API error"}

\* The request api_get issues: requests.get(url, params) at loop index attempt.
Request(endpoint, params, attempt) ==
    [endpoint |-> endpoint, params |-> params, attempt |-> attempt]

\* A variant without the credential check.
ApiGetCall_no_key_check(endpoint, params, wait) ==
    /\ api_log' = Append(api_log, Request(endpoint, params, 0))
    /\ in_flight' = in_flight + 1
    /\ pc' = wait
    /\ UNCHANGED err

\* A variant that does not wait for the answer: main stays where it can
\* call api_get again.
ApiGetCall_not_awaited(endpoint, params, wait) ==
    IF env.API_SPORTS_KEY = ""
    THEN /\ pc' = "error"
         /\ err' = "RuntimeError: API_SPORTS_KEY is empty"
         /\ UNCHANGED <<api_log, in_flight>>
    ELSE /\ api_log' = Append(api_log, Request(endpoint, params, 0))
         /\ in_flight' = in_flight + 1
         /\ pc' = pc
         /\ UNCHANGED err

\* api_get up to its first requests.get: the credential check of lines
\* 48-49, then the request is on the wire and the run waits at `wait`.
ApiGetCall(endpoint, params, wait) ==
    IF env.API_SPORTS_KEY = ""
    THEN /\ pc' = "error"
         /\ err' = "RuntimeError: API_SPORTS_KEY is empty"
         /\ UNCHANGED <<api_log, in_flight>>
    ELSE /\ api_log' = Append(api_log, Request(endpoint, params, 0))
         /\ in_flight' = in_flight + 1
         /\ pc' = wait
         /\ UNCHANGED err

(***************************************************************************)
(* telegram_send (lines 79-97) and format_report (lines 186-208).          *)
(***************************************************************************)
\* f"{freq:.0f}": the fraction rounded to an integer, ties to even.
RoundHalfEven(num, den) ==
    LET q == num \div den
        r == num % den
    IN  IF 2 * r < den THEN q
        ELSE IF 2 * r > den THEN q + 1
        ELSE IF q % 2 = 0 THEN q ELSE q + 1

format_report(top_list) ==
    [kind  |-> "report",
     lines |-> [i \in 1..Len(top_list) |->
                  [i      |-> i,
                   streak |-> top_list[i].streak,
                   freq   |-> RoundHalfEven(top_list[i].freq.num, top_list[i].freq.den),
                   usable |-> top_list[i].usable,
                   team   |-> top_list[i].team_name,
                   league |-> top_list[i].league]]]

NoDataText == [kind |-> "no data", lines |-> <<>>]

\* A variant that does not look at the status of the answer.
telegram_send_raises_never(status) == FALSE

\* Lines 96-97: the answer's status makes telegram_send raise.
telegram_send_raises(status) == status /= 200

(***************************************************************************)
(* The ranking of main (lines 249-256).                                    *)
(***************************************************************************)
FreqLT(f, g) == f.num * g.den < g.num * f.den
FreqEQ(f, g) == f.num * g.den = g.num * f.den

\* A variant of the key order that compares (streak, freq) only.
key_lt_no_usable(a, b) ==
    \/ a.streak < b.streak
    \/ a.streak = b.streak /\ FreqLT(a.freq, b.freq)

\* (a.streak, a.freq, a.usable) < (b.streak, b.freq, b.usable), as Python
\* compares tuples.
key_lt(a, b) ==
    \/ a.streak < b.streak
    \/ a.streak = b.streak /\ FreqLT(a.freq, b.freq)
    \/ a.streak = b.streak /\ FreqEQ(a.freq, b.freq) /\ a.usable < b.usable

RECURSIVE insert_by_key(_, _)
insert_by_key(r, c) ==
    IF r = <<>> THEN <<c>>
    ELSE IF key_lt(Head(r), c)
         THEN <<c>> \o r
         ELSE <<Head(r)>> \o insert_by_key(Tail(r), c)

RECURSIVE candidates_sorted(_)
candidates_sorted(cs) ==
    IF cs = <<>> THEN <<>>
    ELSE insert_by_key(candidates_sorted(SubSeq(cs, 1, Len(cs) - 1)), cs[Len(cs)])

\* A variant that cuts the candidates to TOP_N before it sorts them.
top_of_cut_first(cs) == candidates_sorted(Slice(cs, TOP_N))

top_of(cs) == Slice(candidates_sorted(cs), TOP_N)

\* The dict main appends to candidates (lines 239-247).
Candidate(L, t, st) ==
    [country   |-> L.country,
     league    |-> <<L.country, L.league_name>>,
     team_id   |-> t.id,
     team_name |-> t.name,
     streak    |-> st.streak,
     freq      |-> st.freq,
     usable    |-> st.usable]

(***************************************************************************)
(* The pieces of get_latest_season and main.                               *)
(***************************************************************************)
\* sorted(seasons)[-1]
latest_season(seasons) ==
    CHOOSE x \in {seasons[i] : i \in 1..Len(seasons)} :
        \A i \in 1..Len(seasons) : seasons[i] <= x

\* A variant that looks at the id alone.
skips_team_by_id_only(t) == Get(t, "id", None) \in {None, 0}

\* `if not team_id or not team_name`
skips_team(t) ==
    \/ Get(t, "id", None) \in {None, 0}
    \/ "name" \notin DOMAIN t
    \/ t.name = ""

\* A variant of the threshold that keeps every team with a usable game.
qualifies_any_usable(st) == st.usable >= 1

\* `if usable < 5: continue`
qualifies(st) == ~(st.usable < MIN_USABLE)

\* The text main passes to telegram_send (lines 258-263).
text_of(top_list) == IF top_list = <<>> THEN NoDataText ELSE format_report(top_list)

(***************************************************************************)
(* What the API may answer in a run.                                       *)
(***************************************************************************)
Rep(g, n) == [i \in 1..n |-> g]

Hit(d)     == DatedGame(d, HitScores)
Miss(d)    == DatedGame(d, MissScores)
Unknown(d) == DatedGame(d, UnknownScores)

\* "seasons": nothing, or two seasons in either order.
SeasonsPayloads == {<<>>, <<1, 2>>, <<2, 1>>}

\* "teams": a team with id and name, one without id, one with an empty name.
ValidTeam  == [id |-> 1, name |-> "A"]
NoIdTeam   == [name |-> "B"]
NoNameTeam == [id |-> 2, name |-> ""]
TeamPool   == {ValidTeam, NoIdTeam, NoNameTeam}
TeamsPayloads == SeqsUpTo(TeamPool, MaxTeams)

\* The teams of the pool that carry an id and a name.
TeamsWithIdAndName ==
    {t \in TeamPool : /\ "id" \in DOMAIN t /\ t.id \notin {None, 0}
                      /\ "name" \in DOMAIN t /\ t.name /= ""}

\* No teams answer has arrived yet.
NoneListed == [valid |-> 0, other |-> 0]

\* "games": no game; four usable games; five hits; five hits and a later
\* miss, listed oldest first; five hits and a later game without quarter
\* data; more games than the window; a game without date among dated ones.
GamesPayloads ==
    { <<>>,
      Rep(Hit(1), 4),
      Rep(Hit(1), 5),
      Rep(Hit(1), 5) \o <<Miss(2)>>,
      Rep(Hit(1), 5) \o <<Unknown(2)>>,
      Rep(Hit(1), LAST_GAMES_MAX + 1),
      <<Hit(None), Hit(1)>> }

\* The answers of the messaging endpoint: 0 when requests.post itself
\* raises, else the status code.
TelegramStatuses == {0, 200, 400}

(***************************************************************************)
(* Spec: one run of main (lines 215-263).                                  *)
(***************************************************************************)
Init ==
    /\ env \in [API_SPORTS_KEY : {"", "key"}, TELEGRAM_BOT_TOKEN : {"", "token"},
                TELEGRAM_CHAT_ID : {"", "chat"}]
    /\ pc = "main"
    /\ season = None
    /\ li = 0
    /\ teams = <<>>
    /\ candidates = <<>>
    /\ top = <<>>
    /\ in_flight = 0
    /\ resp = NoResponse
    /\ listed = NoneListed
    /\ api_log = <<>>
    /\ tg_log = <<>>
    /\ delivered = <<>>
    /\ err = ""
    /\ PureIdle

\* A variant in which the exception is caught and the loop over the teams
\* goes on.
Raise_and_go_on(e) == pc' = "team" /\ err' = e

\* An exception nothing catches leaves main: the run is over.
Raise(e) == pc' = "error" /\ err' = e

\* get_latest_season: api_get("seasons") up to its request.
SeasonsRequest ==
    /\ pc = "main"
    /\ ApiGetCall("seasons", None, "seasons_wait")
    /\ UNCHANGED <<env, season, li, teams, candidates, top, resp, listed, tg_log,
                   delivered, pureVars>>

\* The answer to the seasons request; the rest of get_latest_season.
SeasonsResponse ==
    /\ pc = "seasons_wait"
    /\ \E r \in Responses(SeasonsPayloads) :
         /\ in_flight' = in_flight - 1
         /\ resp' = Envelope(r)
         /\ IF api_get_raises(r) /= ""
            THEN Raise(api_get_raises(r)) /\ UNCHANGED <<season, li>>
            ELSE IF r.response = <<>>
            THEN Raise("RuntimeError: Seasons list is empty") /\ UNCHANGED <<season, li>>
            ELSE /\ season' = latest_season(r.response)
                 /\ li' = 1
                 /\ pc' = "league"
                 /\ UNCHANGED err
    /\ UNCHANGED <<env, teams, candidates, top, listed, api_log, tg_log, delivered,
                   pureVars>>

\* `for L in LEAGUES`: get_teams up to its request.
TeamsRequest ==
    /\ pc = "league"
    /\ li <= Len(LEAGUES)
    /\ ApiGetCall("teams", [league |-> LEAGUES[li].league_id, season |-> season],
                  "teams_wait")
    /\ UNCHANGED <<env, season, li, teams, candidates, top, resp, listed, tg_log,
                   delivered, pureVars>>

\* The answer to the teams request.
TeamsResponse ==
    /\ pc = "teams_wait"
    /\ \E r \in Responses(TeamsPayloads) :
         /\ in_flight' = in_flight - 1
         /\ resp' = Envelope(r)
         /\ IF api_get_raises(r) /= ""
            THEN Raise(api_get_raises(r)) /\ UNCHANGED <<teams, listed>>
            ELSE /\ teams' = r.response
                 /\ listed' =
                        [valid |-> listed.valid + Count(r.response, TeamsWithIdAndName),
                         other |-> listed.other
                                   + Count(r.response, TeamPool \ TeamsWithIdAndName)]
                 /\ pc' = "team"
                 /\ UNCHANGED err
    /\ UNCHANGED <<env, season, li, candidates, top, api_log, tg_log, delivered, pureVars>>

\* `for t in teams`, lines 228-231: a team without id or name is skipped.
SkipTeam ==
    /\ pc = "team"
    /\ teams /= <<>>
    /\ skips_team(Head(teams))
    /\ teams' = Tail(teams)
    /\ UNCHANGED <<env, pc, season, li, candidates, top, in_flight, resp, listed,
                   api_log, tg_log, delivered, err, pureVars>>

\* Line 233: get_team_games up to its request.
GamesRequest ==
    /\ pc = "team"
    /\ teams /= <<>>
    /\ ~skips_team(Head(teams))
    /\ ApiGetCall("games", [league |-> LEAGUES[li].league_id, season |-> season,
                            team |-> Head(teams).id, status |-> "FT"],
                  "games_wait")
    /\ UNCHANGED <<env, season, li, teams, candidates, top, resp, listed, tg_log,
                   delivered, pureVars>>

\* The answer to the games request; the rest of get_team_games, then lines
\* 235-247 on its result.
GamesResponse ==
    /\ pc = "games_wait"
    /\ \E r \in Responses(GamesPayloads) :
         /\ in_flight' = in_flight - 1
         /\ resp' = Envelope(r)
         /\ IF api_get_raises(r) /= ""
            THEN Raise(api_get_raises(r)) /\ UNCHANGED <<teams, candidates>>
            ELSE IF sorted_raises(r.response)
            THEN Raise("TypeError") /\ UNCHANGED <<teams, candidates>>
            ELSE LET st == streak_and_freq(get_team_games(r.response, LAST_GAMES_MAX))
                 IN  /\ candidates' =
                            IF qualifies(st)
                            THEN Append(candidates, Candidate(LEAGUES[li], Head(teams), st))
                            ELSE candidates
                     /\ teams' = Tail(teams)
                     /\ pc' = "team"
                     /\ UNCHANGED err
    /\ UNCHANGED <<env, season, li, top, listed, api_log, tg_log, delivered,
                   pureVars>>

\* The teams of the league are exhausted: the next league.
NextLeague ==
    /\ pc = "team"
    /\ teams = <<>>
    /\ li' = li + 1
    /\ pc' = "league"
    /\ UNCHANGED <<env, season, teams, candidates, top, in_flight, resp, listed,
                   api_log, tg_log, delivered, err, pureVars>>

\* Lines 249-256, once the leagues are exhausted.
Rank ==
    /\ pc = "league"
    /\ li > Len(LEAGUES)
    /\ top' = top_of(candidates)
    /\ pc' = "send"
    /\ UNCHANGED <<env, season, li, teams, candidates, in_flight, resp, listed,
                   api_log, tg_log, delivered, err, pureVars>>

\* A variant that drops the message when a messaging credential is missing
\* and lets main return.
TelegramSend_drops_without_credentials ==
    /\ pc = "send"
    /\ IF env.TELEGRAM_BOT_TOKEN = "" \/ env.TELEGRAM_CHAT_ID = ""
       THEN pc' = "done" /\ UNCHANGED <<tg_log, err>>
       ELSE /\ tg_log' = Append(tg_log, text_of(top))
            /\ pc' = "post_wait"
            /\ UNCHANGED err
    /\ UNCHANGED <<env, season, li, teams, candidates, top, in_flight, resp, listed,
                   api_log, delivered, pureVars>>

\* Lines 258-263: telegram_send, of either text, up to its requests.post.
TelegramSend ==
    /\ pc = "send"
    /\ IF env.TELEGRAM_BOT_TOKEN = ""
       THEN Raise("RuntimeError: TELEGRAM_BOT_TOKEN is empty") /\ UNCHANGED tg_log
       ELSE IF env.TELEGRAM_CHAT_ID = ""
       THEN Raise("RuntimeError: TELEGRAM_CHAT_ID is empty") /\ UNCHANGED tg_log
       ELSE /\ tg_log' = Append(tg_log, text_of(top))
            /\ pc' = "post_wait"
            /\ UNCHANGED err
    /\ UNCHANGED <<env, season, li, teams, candidates, top, in_flight, resp, listed,
                   api_log, delivered, pureVars>>

\* The answer to the POST; main returns after a telegram_send that returns.
TelegramResponse ==
    /\ pc = "post_wait"
    /\ \E status \in TelegramStatuses :
         /\ delivered' = IF status = 200
                         THEN Append(delivered, tg_log[Len(tg_log)])
                         ELSE delivered
         /\ IF status = 0 THEN Raise("requests.RequestException in requests.post")
            ELSE IF telegram_send_raises(status)
            THEN Raise("RuntimeError: Telegram sendMessage error")
            ELSE pc' = "done" /\ UNCHANGED err
    /\ UNCHANGED <<env, season, li, teams, candidates, top, in_flight, resp, listed,
                   api_log, tg_log, pureVars>>

Next ==
    \/ SeasonsRequest \/ SeasonsResponse
    \/ TeamsRequest \/ TeamsResponse
    \/ SkipTeam \/ GamesRequest \/ GamesResponse \/ NextLeague
    \/ Rank \/ TelegramSend \/ TelegramResponse

Spec == Init /\ [][Next]_vars

(***************************************************************************)
(* SpecRank: lines 249-256 of main on candidate lists longer than TOP_N.   *)
(* The run has left the loop over LEAGUES; candidates holds, in any order  *)
(* of the kinds, 0..MaxRep teams of each kind of KindStats, which are the  *)
(* statistics of four lists of games.  The histories api_log, tg_log and   *)
(* listed are not part of this specification and stay empty.               *)
(***************************************************************************)
KindGames ==
    << Rep(Hit(1), 5),
       Rep(Hit(1), 5) \o <<Miss(2)>>,
       Rep(Hit(1), 5) \o <<Miss(1)>> \o Rep(Hit(1), 5) \o <<Miss(2)>>,
       Rep(Miss(1), 5) >>

KindStats ==
    [k \in 1..Len(KindGames) |->
        streak_and_freq(get_team_games(KindGames[k], LAST_GAMES_MAX))]

Perms(n) == {p \in [1..n -> 1..n] : \A i, j \in 1..n : p[i] = p[j] => i = j}

RECURSIVE Blocks(_, _, _)
Blocks(p, cnt, k) ==
    IF k = 0 THEN <<>>
    ELSE Blocks(p, cnt, k - 1) \o Rep(KindStats[p[k]], cnt[k])

CandidateLists ==
    { LET ks == Blocks(p, cnt, Len(KindGames))
      IN  [i \in 1..Len(ks) |-> Candidate(LEAGUES[1], [id |-> i, name |-> "T"], ks[i])]
      : p \in Perms(Len(KindGames)), cnt \in [1..Len(KindGames) -> 0..MaxRep] }

InitRank ==
    /\ env = [API_SPORTS_KEY |-> "key", TELEGRAM_BOT_TOKEN |-> "token",
              TELEGRAM_CHAT_ID |-> "chat"]
    /\ pc = "league"
    /\ season = 2
    /\ li = Len(LEAGUES) + 1
    /\ teams = <<>>
    /\ candidates \in CandidateLists
    /\ top = <<>>
    /\ in_flight = 0
    /\ resp = NoResponse
    /\ listed = NoneListed
    /\ api_log = <<>>
    /\ tg_log = <<>>
    /\ delivered = <<>>
    /\ err = ""
    /\ PureIdle

NextRank == Rank

SpecRank == InitRank /\ [][NextRank]_vars

(***************************************************************************)
(* Properties.                                                             *)
(***************************************************************************)
\* The number of "hit" at the head of obs, before the first other value.
RECURSIVE LeadingHits(_)
LeadingHits(obs) ==
    IF obs = <<>> \/ Head(obs) /= "hit" THEN 0 ELSE 1 + LeadingHits(Tail(obs))

\* C1 (SpecAnalyze): the streak streak_and_freq returns is the number of
\* consecutive hit games at the head of the sequence before the first game
\* that is a miss or unknown, so it is 0 when the most recent game is
\* unknown, and unknown games are counted in neither usable nor hits.
StreakStopsAtUnknown ==
    pc = "streak_return" =>
        /\ stats.streak = LeadingHits(Obs(games))
        /\ (games /= <<>> /\ Obs(games)[1] = "unknown" => stats.streak = 0)
        /\ stats.usable = Count(Obs(games), {"hit", "miss"})
        /\ stats.ok_count = Count(Obs(games), {"hit"})

TransientErrors == {"requests.RequestException",
                    "RuntimeError: API response is not JSON", "RuntimeError: HTTP"}

\* C2 (Spec): when api_get ends a run on a network failure, a non-2xx
\* status or a non-JSON body, the request has been sent max_retries times:
\* the last request issued is the attempt of index max_retries - 1.
RetriesBeforeFatal ==
    err \in TransientErrors =>
        /\ api_log /= <<>>
        /\ api_log[Len(api_log)].attempt = max_retries - 1

\* C3 (Spec): the number of API requests sent never exceeds the daily
\* ceiling by more than the one call in flight.
RequestsWithinCeiling == Len(api_log) <= DailyCeiling + 1

FetchOrCredentialErrors ==
    ApiErrors \cup {"RuntimeError: API_SPORTS_KEY is empty",
                    "RuntimeError: Seasons list is empty", "TypeError",
                    "RuntimeError: TELEGRAM_BOT_TOKEN is empty",
                    "RuntimeError: TELEGRAM_CHAT_ID is empty"}

Kinds(msgs) == [i \in 1..Len(msgs) |-> msgs[i].kind]

\* C4 (Spec): a run that ends in an error has delivered no ranking report,
\* and when the error is a missing credential or a failed fetch no message
\* was even posted; a run that ends successfully has posted and delivered
\* exactly one message, the ranking report when a team qualified and the
\* "no data" message when none did.
OneMessagePerRun ==
    /\ err /= "" => Count(Kinds(delivered), {"report"}) = 0
    /\ err \in FetchOrCredentialErrors => tg_log = <<>> /\ delivered = <<>>
    /\ pc = "done" =>
          /\ Len(tg_log) = 1
          /\ delivered = tg_log
          /\ delivered[1].kind = IF candidates = <<>> THEN "no data" ELSE "report"
          /\ Len(delivered[1].lines) = Len(top)

\* C4 witness: a successful run whose one message is the ranking report.
OneMessagePerRunWitness ==
    pc = "done" /\ Len(delivered) = 1 /\ delivered[1].kind = "report"

\* The value of field q of side of g when the record has it, else None.
Field(g, side, q) ==
    IF "scores" \in DOMAIN g
    THEN IF side \in DOMAIN g.scores
         THEN IF q \in DOMAIN g.scores[side] THEN g.scores[side][q] ELSE None
         ELSE None
    ELSE None

FourFields(g) ==
    << Field(g, "home", "quarter_1"), Field(g, "away", "quarter_1"),
       Field(g, "home", "quarter_2"), Field(g, "away", "quarter_2") >>

\* C5 (SpecCond): condition_q1_lt_q2 returns unknown exactly when one of
\* the four quarter fields is absent; with all four present it returns hit
\* when homeQ1 + awayQ1 < homeQ2 + awayQ2 and miss otherwise.  A score of 0
\* is present data.
ObservationOfGame ==
    pc = "cond_return" =>
        LET f == FourFields(game)
        IN  /\ cond = "unknown" <=> \E i \in 1..4 : f[i] = None
            /\ (\A i \in 1..4 : f[i] /= None) =>
                  /\ cond = "hit" <=> f[1] + f[2] < f[3] + f[4]
                  /\ cond = "miss" <=> f[1] + f[2] >= f[3] + f[4]

\* C5 witness: a game with all four scores present, two of them 0, is a hit.
ObservationOfGameWitness ==
    /\ pc = "cond_return"
    /\ FourFields(game) = <<0, 0, 0, 1>>
    /\ cond = "hit"

\* C6 (SpecAnalyze): usable is the number of games of the sequence that
\* are hit or miss and hits the number that are hit, wherever the misses
\* and the unknown games stand.
FrequencyCoversWindow ==
    pc = "streak_return" =>
        /\ stats.usable = Count(Obs(games), {"hit", "miss"})
        /\ stats.ok_count = Count(Obs(games), {"hit"})
        /\ stats.freq = Freq(Count(Obs(games), {"hit"}), Count(Obs(games), {"hit", "miss"}))

\* C6 witness: a hit behind a miss and an unknown game is still counted.
FrequencyCoversWindowWitness ==
    /\ pc = "streak_return"
    /\ Obs(games) = <<"miss", "unknown", "hit">>
    /\ stats.usable = 2
    /\ stats.ok_count = 1

\* C7 (SpecAnalyze): after get_team_games with window last_n and
\* streak_and_freq, streak <= usable <= last_n.
StreakUsableWindow ==
    pc = "streak_return" => stats.streak <= stats.usable /\ stats.usable <= last_n

\* C7 witness: more games fetched than the window, all of the window hits.
StreakUsableWindowWitness ==
    /\ pc = "streak_return"
    /\ Len(fetched) > last_n
    /\ last_n >= 2
    /\ stats.streak = last_n
    /\ stats.usable = last_n

\* (streak, freq) of a is at least that of b.
PairGE(a, b) ==
    \/ a.streak > b.streak
    \/ a.streak = b.streak /\ a.freq.num * b.freq.den >= b.freq.num * a.freq.den

\* (streak, freq, usable) of a is at least that of b.
TripleGE(a, b) ==
    \/ a.streak > b.streak
    \/ a.streak = b.streak /\ a.freq.num * b.freq.den > b.freq.num * a.freq.den
    \/ /\ a.streak = b.streak
       /\ a.freq.num * b.freq.den = b.freq.num * a.freq.den
       /\ a.usable >= b.usable

\* C8 (SpecRank): of any two adjacent entries of the ranking the earlier
\* one's (streak, freq, usable) is lexicographically at least the later's.
RankingOrdered ==
    pc = "send" => \A i \in 1..(Len(top) - 1) : TripleGE(top[i], top[i + 1])

\* C8 witness: a full ranking in which two adjacent entries tie on streak
\* and frequency and differ in usable, and two differ in streak.
RankingOrderedWitness ==
    /\ pc = "send"
    /\ Len(top) = TOP_N
    /\ \E i \in 1..(Len(top) - 1) :
          /\ top[i].streak = top[i + 1].streak
          /\ FreqEQ(top[i].freq, top[i + 1].freq)
          /\ top[i].usable > top[i + 1].usable
    /\ \E i \in 1..(Len(top) - 1) : top[i].streak > top[i + 1].streak

TeamIds(cs) == {cs[i].team_id : i \in 1..Len(cs)}

\* C9 (SpecRank): the ranking has min(TOP_N, number of qualifying teams)
\* entries, all of them qualifying teams, and every qualifying team left
\* out has a (streak, freq) no greater than that of every team included.
RankingIsTopN ==
    pc = "send" =>
        /\ Len(top) = Min(TOP_N, Len(candidates))
        /\ \A i \in 1..Len(top) : \E j \in 1..Len(candidates) : top[i] = candidates[j]
        /\ Cardinality(TeamIds(top)) = Len(top)
        /\ \A j \in 1..Len(candidates) :
              candidates[j].team_id \notin TeamIds(top) =>
                  \A i \in 1..Len(top) : PairGE(top[i], candidates[j])

\* C9 witness: twelve qualifying teams give ten entries, and a team that
\* entered candidates among the first ten is left out for a later one.
RankingIsTopNWitness ==
    /\ pc = "send"
    /\ Len(candidates) = TOP_N + 2
    /\ Len(top) = TOP_N
    /\ \E j \in 1..TOP_N : candidates[j].team_id \notin TeamIds(top)

\* C10 (Spec): once the number of requests has reached the ceiling no
\* further API request is issued, and no ranking report is delivered.
RunStopsAtCeiling ==
    /\ Len(api_log) <= DailyCeiling
    /\ Len(api_log) >= DailyCeiling => Count(Kinds(delivered), {"report"}) = 0

\* C11 (Spec): an answer whose body carries a non-empty errors object ends
\* the run in an error: api_get raises for that call with one request sent
\* (the attempt of index 0), nothing is in flight, and this is so for a
\* 200 answer as for any other status.
ErrorsBodyIsFatal ==
    resp.errors =>
        /\ pc = "error"
        /\ err = IF resp.status = 200 THEN "RuntimeError: API error" ELSE "RuntimeError: HTTP"
        /\ in_flight = 0
        /\ api_log[Len(api_log)].attempt = 0

\* C11 witness: a later request of a run is answered 200 with errors.
ErrorsBodyIsFatalWitness ==
    /\ resp.errors
    /\ resp.status = 200
    /\ Len(api_log) > 1
    /\ pc = "error"

\* C12 (Spec): a step in which a fetch fails ends the run with no ranking
\* made and no message posted, and from then on no API request is issued,
\* no ranking is made and no message is posted.
AbortOnFetchFailure ==
    [][ /\ err' \in ApiErrors =>
              pc' = "error" /\ top' = <<>> /\ tg_log' = <<>> /\ delivered' = <<>>
        /\ err \in ApiErrors =>
              api_log' = api_log /\ top' = top /\ tg_log' = tg_log ]_vars

\* C12 witness: a fetch fails with a candidate gathered and leagues left.
AbortOnFetchFailureWitness ==
    /\ err \in ApiErrors
    /\ candidates /= <<>>
    /\ li < Len(LEAGUES)

\* The date a game is ordered by: the key sorted() is given.
DateKey(g) == parse_date(g).t

\* C13 (SpecAnalyze): for every list of fetched games, with equal, missing
\* or unparseable dates too, get_team_games returns, and what it hands to
\* the streak computation is at most last_n games, in strictly descending
\* date order, none of them older than a fetched game left out.
WindowIsMostRecentSorted ==
    /\ pc /= "games_raised"
    /\ pc = "streak_call" =>
          /\ Len(games) = Min(last_n, Len(fetched))
          /\ \A i, j \in 1..Len(games) : i < j => DateKey(games[i]) > DateKey(games[j])
          /\ \E kept \in SUBSET (1..Len(fetched)) :
                /\ Cardinality(kept) = Len(games)
                /\ \A g \in GamePool : Count(games, {g}) = Cardinality({i \in kept : fetched[i] = g})
                /\ \A i \in kept, j \in (1..Len(fetched)) \ kept :
                      DateKey(fetched[i]) >= DateKey(fetched[j])

\* The games ahead of the first miss: all of obs when it has no miss.
RECURSIVE BeforeFirstMiss(_)
BeforeFirstMiss(obs) ==
    IF obs = <<>> \/ Head(obs) = "miss" THEN <<>>
    ELSE <<Head(obs)>> \o BeforeFirstMiss(Tail(obs))

\* C15 (SpecAnalyze): the streak streak_and_freq returns counts the hit
\* games ahead of the first miss and none behind it, so it is 0 when the
\* most recent game is a miss.
StreakEndsAtFirstMiss ==
    pc = "streak_return" =>
        /\ stats.streak = Count(BeforeFirstMiss(Obs(games)), {"hit"})
        /\ (games /= <<>> /\ Obs(games)[1] = "miss" => stats.streak = 0)

\* C15 witness: a hit game lies behind the miss that ended a streak of 1.
StreakEndsAtFirstMissWitness ==
    /\ pc = "streak_return"
    /\ Obs(games) = <<"hit", "miss", "hit">>
    /\ stats.streak = 1

\* The requests of the log whose endpoint is e.
RequestsTo(e) == {k \in 1..Len(api_log) : api_log[k].endpoint = e}

\* C14 (Spec): every entry of candidates, and so of the ranking, has at
\* least five usable games: a team whose window has no usable game, or
\* fewer than five, is never among them.
CandidatesHaveFiveUsable ==
    /\ \A i \in 1..Len(candidates) :
          candidates[i].usable /= 0 /\ candidates[i].usable >= MIN_USABLE
    /\ \A i \in 1..Len(top) : top[i].usable >= MIN_USABLE

\* C14 witness: the run went on past the games of more teams than it has
\* candidates, and it has a candidate.
CandidatesHaveFiveUsableWitness ==
    /\ pc = "send"
    /\ candidates /= <<>>
    /\ Cardinality(RequestsTo("games")) > Len(candidates)

\* C16 (Spec): with API_SPORTS_KEY empty the run ends at its first api_get,
\* with the error of the credential check, having sent no API request and
\* no message.
NoRequestWithoutKey ==
    env.API_SPORTS_KEY = "" =>
        /\ api_log = <<>> /\ in_flight = 0
        /\ tg_log = <<>> /\ delivered = <<>>
        /\ pc \in {"main", "error"}
        /\ pc = "error" => err = "RuntimeError: API_SPORTS_KEY is empty"

\* C16 witness: api_get has raised for the empty key, the messaging
\* credentials being there.
NoRequestWithoutKeyWitness ==
    /\ env.API_SPORTS_KEY = ""
    /\ env.TELEGRAM_BOT_TOKEN /= "" /\ env.TELEGRAM_CHAT_ID /= ""
    /\ pc = "error"

TelegramErrors == {"RuntimeError: TELEGRAM_BOT_TOKEN is empty",
                   "RuntimeError: TELEGRAM_CHAT_ID is empty",
                   "RuntimeError: Telegram sendMessage error",
                   "requests.RequestException in requests.post"}

\* C17 (Spec): a run whose final send fails ends in an error of
\* telegram_send: with the token or the recipient missing the run never
\* ends well, a message posted and not accepted leaves the run in error,
\* and a run that ends well has had its message accepted.
FailedSendEndsInError ==
    /\ (env.TELEGRAM_BOT_TOKEN = "" \/ env.TELEGRAM_CHAT_ID = "") =>
          pc /= "done" /\ tg_log = <<>>
    /\ (pc /= "post_wait" /\ tg_log /= delivered) =>
          pc = "error" /\ err \in TelegramErrors
    /\ pc = "done" => delivered = <<text_of(top)>>

\* C17 witness: the report of a ranking was posted and answered non-200.
FailedSendEndsInErrorWitness ==
    /\ err = "RuntimeError: Telegram sendMessage error"
    /\ top /= <<>>
    /\ tg_log = <<format_report(top)>>
    /\ delivered = <<>>

\* C18 (Spec): at most one API request is outstanding, and only while
\* api_get waits for it; from the ranking on, and whenever a message has
\* been posted, none is.
OneRequestOutstanding ==
    /\ in_flight \in {0, 1}
    /\ in_flight = 1 <=> pc \in {"seasons_wait", "teams_wait", "games_wait"}
    /\ pc \in {"send", "post_wait", "done"} => in_flight = 0
    /\ tg_log /= <<>> => in_flight = 0

\* C18 witness: the message is on the wire after seasons, teams and games
\* requests, all answered.
OneRequestOutstandingWitness ==
    /\ pc = "post_wait"
    /\ RequestsTo("games") /= {}
    /\ in_flight = 0

\* The ids of the teams that carry an id and a name.
IdsWithName == {t.id : t \in TeamsWithIdAndName}

\* C19 (Spec): a run that ends well has issued 1 + |LEAGUES| + T requests,
\* T the number of listed teams with id and name: first seasons, then for
\* each league in the order of LEAGUES its teams request followed by the
\* games requests of its teams; no games request and no candidate is of a
\* team without id or name.
RequestsOfARun ==
    /\ pc = "done" =>
          /\ Len(api_log) = 1 + Len(LEAGUES) + listed.valid
          /\ RequestsTo("seasons") = {1}
          /\ Cardinality(RequestsTo("teams")) = Len(LEAGUES)
          /\ Cardinality(RequestsTo("games")) = listed.valid
          /\ \A k \in RequestsTo("teams") :
                api_log[k].params.league
                    = LEAGUES[Cardinality({j \in RequestsTo("teams") : j <= k})].league_id
          /\ \A k \in RequestsTo("games") :
                \E j \in RequestsTo("teams") :
                   /\ j < k
                   /\ RequestsTo("teams") \cap (j+1..k) = {}
                   /\ api_log[j].params.league = api_log[k].params.league
    /\ \A k \in RequestsTo("games") : api_log[k].params.team \in IdsWithName
    /\ \A i \in 1..Len(candidates) :
          candidates[i].team_id \in IdsWithName /\ candidates[i].team_name /= ""
    /\ Len(candidates) <= Cardinality(RequestsTo("games"))

\* C19 witness: a run ends well in which the teams answers listed teams
\* with id and name and a team without.
RequestsOfARunWitness ==
    /\ pc = "done"
    /\ listed.valid >= 1
    /\ listed.other >= 1

====
